---------------------------- MODULE Spec2Model ----------------------------
(***************************************************************************)
(* Model of the solar-dashboard enrichment / correlation / ranking engine  *)
(* (Dashboard component, src/unnamed/part_002), of the records it         *)
(* consumes (src/unnamed/part_000) and of the fetch client                 *)
(* (src/unnamed/part_001).                                                 *)
(*                                                                         *)
(* Encoding of JavaScript values:                                          *)
(*   - an object is a function from its own keys to values; an absent      *)
(*     (undefined) property is a key outside DOMAIN;                       *)
(*   - a nullable scalar (T | null) is <<>> for null and <<v>> for v;      *)
(*   - a string that the code inspects (a note) is the sequence of its     *)
(*     characters; timestamps and ids are opaque strings;                  *)
(*   - an array is a sequence;                                             *)
(*   - Infinity is a number above every score.                             *)
(***************************************************************************)
EXTENDS Integers, Sequences, FiniteSets, TLC

VARIABLES
    cme,            \* SpecEnrich: the raw CME handed to enhanceCMEData
    enhanced,       \* SpecEnrich: what enhanceCMEData returned for it
    pc,             \* SpecEnrich: "input" before the call, "done" after
    processedCMEs,  \* Dashboard state: useState<EnhancedCME[]>
    cmeError,       \* Dashboard state: useState<string | null>
    cmeIsLoading,   \* Dashboard state: useState<boolean>
    cmeInFlight,    \* loadCMEData passes awaiting fetchDonkiCMEs
    cmeStarted,     \* loadCMEData passes started so far; pass k is the k-th
    cmeAwaiting,    \* the passes whose fetchDonkiCMEs promise is pending
    cmeSettled,     \* the last fetchDonkiCMEs promise that settled, and how
    donkiCMEs,      \* SpecCorrelate: the array fetchDonkiCMEs resolves with
    donkiFlares,    \* SpecCorrelate: the array fetchDonkiSolarFlares resolves with
    donkiIPS,       \* SpecCorrelate: the array fetchDonkiIPS resolves with
    flarePc,        \* position of loadFlareAndCorrelateData
    flareCmeMap,    \* its local cmeMap
    processedFlares,\* Dashboard state: useState<SolarFlare[]>
    flaresError,    \* Dashboard state: useState<string | null>
    flaresIsLoading,\* Dashboard state: useState<boolean>
    ipsPc,          \* position of loadIPSAndCorrelateData
    ipsCmeMap,      \* its local cmeMap
    processedIPS,   \* Dashboard state: useState<InterplanetaryShock[]>
    ipsError,       \* Dashboard state: useState<string | null>
    ipsIsLoading,   \* Dashboard state: useState<boolean>
    fetchPc,        \* SpecFetch: position of fetchData
    attempt,        \* fetchData: the loop counter
    maxRetries,     \* fetchData: parameter
    lastError,      \* fetchData: let lastError: Error | null
    requests,       \* the responses fetch() has produced for this call, in order
    delays,         \* the backoff delays this call has waited, in order
    fetchResult,    \* what the fetchData promise settled with
    tooltipActive,  \* SpecTooltip: the `active` prop of the last CustomTooltip render
    tooltipPayload, \* its `payload` prop
    tooltipClass    \* the class that render showed, Null when it rendered nothing

enrichVars == <<cme, enhanced, pc>>
cmeVars ==
    <<processedCMEs, cmeError, cmeIsLoading, cmeInFlight, cmeStarted, cmeAwaiting,
      cmeSettled>>
feedVars == <<donkiCMEs, donkiFlares, donkiIPS>>
flareVars == <<flarePc, flareCmeMap, processedFlares, flaresError, flaresIsLoading>>
ipsVars == <<ipsPc, ipsCmeMap, processedIPS, ipsError, ipsIsLoading>>
fetchVars == <<fetchPc, attempt, maxRetries, lastError, requests, delays, fetchResult>>

tooltipVars == <<tooltipActive, tooltipPayload, tooltipClass>>

vars == <<enrichVars, cmeVars, feedVars, flareVars, ipsVars, fetchVars, tooltipVars>>

---------------------------------------------------------------------------
(* Bounds of the model.                                                    *)

MaxAnalyses == 2    \* analyses in one CME record
MaxSims == 2        \* ENLIL simulations in one CME record (all analyses)
MaxFeed == 2        \* CME records in one fetched feed
MaxInFlight == 2    \* overlapping loadCMEData passes
MaxPasses == 3      \* loadCMEData passes started in one behaviour
MaxCorrCMEs == 2    \* CME records in the feed of a correlation pass
MaxEvents == 2      \* flares (and shocks) in one fetched feed
MaxLinked == 3      \* entries in the linkedEvents of a flare or shock
MaxMaxRetries == 2  \* the maxRetries a fetchData call is given

---------------------------------------------------------------------------
(* JavaScript values.                                                      *)

Null == <<>>
Infinity == 1000000

Has(o, k) == k \in DOMAIN o

\* o with property k set to v (assignment o.k = v; object spread + override)
Set(o, k, v) == [x \in DOMAIN o \cup {k} |-> IF x = k THEN v ELSE o[x]]

\* Truthiness of a nullable string: null and "" are falsy.
TruthyStr(v) == v # Null /\ v # <<"">>

LowerOf ==
    [c \in {"E", "A", "R", "T", "H", "e", "a", "r", "t", "h", "n", "M", "s"} |->
        CASE c = "E" -> "e" [] c = "A" -> "a" [] c = "R" -> "r"
          [] c = "T" -> "t" [] c = "H" -> "h" [] c = "M" -> "m"
          [] OTHER -> c]

toLowerCase(s) == [i \in 1..Len(s) |-> LowerOf[s[i]]]

includes(s, sub) ==
    \E i \in 1..(Len(s) - Len(sub) + 1) : SubSeq(s, i, i + Len(sub) - 1) = sub

earth == <<"e", "a", "r", "t", "h">>

\* analysis.note && analysis.note.toLowerCase().includes("earth")
noteMentionsEarth(analysis) ==
    /\ Has(analysis, "note")
    /\ analysis.note # <<>>
    /\ includes(toLowerCase(analysis.note), earth)

\* analysis.enlilList && analysis.enlilList.length > 0
hasEnlil(analysis) ==
    Has(analysis, "enlilList") /\ Len(analysis.enlilList) > 0

---------------------------------------------------------------------------
(* CME Enrichment Engine: isPotentiallyEarthRelevant and enhanceCMEData.   *)

\* Array.prototype.find, given the indices whose element satisfies the
\* callback: the first such element as <<x>>, <<>> (undefined) when none.
find(list, hits) ==
    IF hits = {} THEN <<>>
    ELSE <<list[CHOOSE i \in hits : \A j \in hits : i <= j]>>

\* Mutant: Array.prototype.every in place of some.
isPotentiallyEarthRelevant_every(c) ==
    IF ~Has(c, "cmeAnalyses")
    THEN FALSE
    ELSE \A i \in 1..Len(c.cmeAnalyses) :
            \/ c.cmeAnalyses[i].isMostAccurate
            \/ hasEnlil(c.cmeAnalyses[i])
            \/ noteMentionsEarth(c.cmeAnalyses[i])

\* Mutant: only the first analysis is inspected.
isPotentiallyEarthRelevant_firstOnly(c) ==
    IF ~Has(c, "cmeAnalyses") \/ Len(c.cmeAnalyses) = 0
    THEN FALSE
    ELSE \/ c.cmeAnalyses[1].isMostAccurate
         \/ hasEnlil(c.cmeAnalyses[1])
         \/ noteMentionsEarth(c.cmeAnalyses[1])

\* Mutant: the note of an analysis is not inspected.
isPotentiallyEarthRelevant_noNote(c) ==
    IF ~Has(c, "cmeAnalyses") \/ Len(c.cmeAnalyses) = 0
    THEN FALSE
    ELSE \E i \in 1..Len(c.cmeAnalyses) :
            c.cmeAnalyses[i].isMostAccurate \/ hasEnlil(c.cmeAnalyses[i])

isPotentiallyEarthRelevant(c) ==
    IF ~Has(c, "cmeAnalyses") \/ Len(c.cmeAnalyses) = 0
    THEN FALSE
    ELSE \E i \in 1..Len(c.cmeAnalyses) :
            LET analysis == c.cmeAnalyses[i]
            IN  \/ analysis.isMostAccurate
                \/ hasEnlil(analysis)
                \/ noteMentionsEarth(analysis)

\* Mutant: the last analysis flagged most accurate is taken.
mostAccurateAnalysis_last(c) ==
    LET hits == IF Has(c, "cmeAnalyses")
                THEN {i \in 1..Len(c.cmeAnalyses) : c.cmeAnalyses[i].isMostAccurate}
                ELSE {}
    IN  IF hits = {} THEN <<>>
        ELSE <<c.cmeAnalyses[CHOOSE i \in hits : \A j \in hits : i >= j]>>

\* cme.cmeAnalyses?.find(a => a.isMostAccurate)
mostAccurateAnalysis(c) ==
    IF Has(c, "cmeAnalyses")
    THEN find(c.cmeAnalyses,
              {i \in 1..Len(c.cmeAnalyses) : c.cmeAnalyses[i].isMostAccurate})
    ELSE <<>>

\* mostAccurateAnalysis || cme.cmeAnalyses?.[0]
relevantAnalysis(c) ==
    IF mostAccurateAnalysis(c) # <<>>
    THEN mostAccurateAnalysis(c)
    ELSE IF Has(c, "cmeAnalyses") /\ Len(c.cmeAnalyses) > 0
         THEN <<c.cmeAnalyses[1]>>
         ELSE <<>>

\* enlil.isEarthGB === true ||
\*   (enlil.impactList && enlil.impactList.some(imp => imp.location === "Earth"))
isEarthEnlil(enlil) ==
    \/ enlil.isEarthGB = <<TRUE>>
    \/ /\ Has(enlil, "impactList")
       /\ \E i \in 1..Len(enlil.impactList) : enlil.impactList[i].location = "Earth"

\* relevantAnalysis.enlilList?.filter(...): <<>> when enlilList is absent
earthEnlilSimulations(analysis) ==
    IF Has(analysis, "enlilList")
    THEN <<SelectSeq(analysis.enlilList, isEarthEnlil)>>
    ELSE <<>>

\* Mutant: the last Earth-directed simulation is taken.
firstEarthEnlil_last(analysis) ==
    LET sims == earthEnlilSimulations(analysis)
    IN  IF sims # <<>> /\ Len(sims[1]) > 0 THEN <<sims[1][Len(sims[1])]>> ELSE <<>>

\* earthEnlilSimulations?.[0]
firstEarthEnlil(analysis) ==
    LET sims == earthEnlilSimulations(analysis)
    IN  IF sims # <<>> /\ Len(sims[1]) > 0 THEN <<sims[1][1]>> ELSE <<>>

\* firstEarthEnlil.impactList?.map(imp => imp.location)
\*   || (firstEarthEnlil.isEarthGB ? ["Earth Geospace"] : [])
impactLocations(enlil) ==
    IF Has(enlil, "impactList")
    THEN [i \in 1..Len(enlil.impactList) |-> enlil.impactList[i].location]
    ELSE IF enlil.isEarthGB = <<TRUE>> THEN <<"Earth Geospace">> ELSE <<>>

hasImpact(e) == Has(e, "impactList") /\ Len(e.impactList) > 0

\* relevantAnalysis.enlilList?.find(e => e.impactList && e.impactList.length > 0)
anyEnlilWithImpact(analysis) ==
    IF Has(analysis, "enlilList")
    THEN find(analysis.enlilList,
              {i \in 1..Len(analysis.enlilList) : hasImpact(analysis.enlilList[i])})
    ELSE <<>>

\* Mutant: the test of the arrival time is inverted.
earthEnlilScore_inverted(enlil) ==
    IF TruthyStr(enlil.estimatedShockArrivalTime) THEN 2 ELSE 1

\* Mutant: every Earth-directed simulation earns the score 1.
earthEnlilScore_alwaysOne(enlil) == 1

\* The score an Earth-directed simulation earns (lines 128-132).
earthEnlilScore(enlil) ==
    IF TruthyStr(enlil.estimatedShockArrivalTime) THEN 1 ELSE 2

\* Mutant: -1 in place of Infinity for "no score".
initialEnhanced_minusOne(c) == Set(c, "earthImpactScore", -1)

\* const enhanced = { ...cme, earthImpactScore: Infinity }
initialEnhanced(c) == Set(c, "earthImpactScore", Infinity)

\* The body of `if (relevantAnalysis) { ... }`, applied to the record e that
\* already carries the score and the flag.
scoreFromAnalysis(e, ra) ==
    LET e1 == Set(e, "displayAnalysisSpeed", ra.speed)
        e2 == Set(e1, "displayAnalysisHalfAngle", ra.halfAngle)
        e3 == Set(e2, "displayAnalysisType", ra.type)
        e4 == IF Has(ra, "note") THEN Set(e3, "displayAnalysisNote", ra.note) ELSE e3
        fe == firstEarthEnlil(ra)
    IN  IF fe # <<>>
        THEN LET f1 == Set(e4, "displayEnlilArrivalTime", fe[1].estimatedShockArrivalTime)
                 f2 == Set(f1, "displayEnlilDuration", fe[1].estimatedDuration)
                 f3 == Set(f2, "displayEnlilImpactLocations", impactLocations(fe[1]))
             IN  Set(f3, "earthImpactScore", earthEnlilScore(fe[1]))
        ELSE IF noteMentionsEarth(ra)
        THEN LET any == anyEnlilWithImpact(ra)
                 g1 == IF any # <<>> /\ e4.earthImpactScore > 2
                       THEN Set(e4, "displayEnlilArrivalTime",
                                <<any[1].impactList[1].arrivalTime>>)
                       ELSE e4
             IN  IF g1.earthImpactScore > 2 THEN Set(g1, "earthImpactScore", 3) ELSE g1
        ELSE IF hasEnlil(ra)
        THEN IF e4.earthImpactScore > 3 THEN Set(e4, "earthImpactScore", 4) ELSE e4
        ELSE e4

enhanceCMEData(c) ==
    LET e0 == initialEnhanced(c)
        e1 == Set(e0, "isPotentiallyEarthDirected", isPotentiallyEarthRelevant(c))
        ra == relevantAnalysis(c)
    IN  IF ra # <<>> THEN scoreFromAnalysis(e1, ra[1]) ELSE e1

---------------------------------------------------------------------------
(* The raw records of a feed (src/unnamed/part_000): the bounded input set  *)
(* of the enrichment engine.                                               *)

\* EnlilImpact
Impact(loc, t) == [location |-> loc, arrivalTime |-> t, isGlancingBlow |-> FALSE]

ImpactMars == Impact("Mars", "2024-03-02T06:00Z")
ImpactStereo == Impact("STEREO A", "2024-03-02T09:00Z")
ImpactEarth == Impact("Earth", "2024-03-01T20:00Z")

\* impactList?: EnlilImpact[] when present
ImpactLists ==
    {<<>>, <<ImpactMars, ImpactStereo>>, <<ImpactMars, ImpactEarth>>}

\* impactList?: <<>> when the property is absent, <<list>> when present
ImpactChoices == {<<>>} \cup { <<l>> : l \in ImpactLists }

\* estimatedShockArrivalTime: string | null, estimatedDuration: number | null
ArrivalAndDuration ==
    { <<Null, Null>>,
      <<Null, <<18>>>>,
      <<<<"2024-03-01T12:00Z">>, Null>>,
      <<<<"2024-03-01T12:00Z">>, <<18>>>> }

\* What varies in an EnlilSimulation, and the record it stands for.
SimChoices ==
    [isEarthGB : {<<TRUE>>, <<FALSE>>, Null}, times : ArrivalAndDuration,
     impacts : ImpactChoices]

Sim(ch) ==
    LET s == [isEarthGB |-> ch.isEarthGB,
              estimatedShockArrivalTime |-> ch.times[1],
              estimatedDuration |-> ch.times[2]]
    IN  IF ch.impacts = <<>> THEN s ELSE Set(s, "impactList", ch.impacts[1])

\* The notes of an analysis: mixed case with "earth" inside, and a note that
\* holds only a prefix of it.
NoteEarth == <<"n", "E", "a", "R", "t", "H">>
NoteOther == <<"e", "a", "r", "t", "M", "s">>

\* note: <<>> when the property is absent, <<text>> when present
NoteChoices == {<<>>, <<NoteEarth>>, <<NoteOther>>}

\* What distinguishes the analysis at position i of a CME from the others.
SampleSpeed == <<0, 450, 900, 1350>>
SampleHalfAngle == <<20, 35, 50, 65>>
SampleType == <<"S", "C", "O", "R">>

AnalysisChoices == [isMostAccurate : BOOLEAN, note : NoteChoices]

\* CMEAnalysis at position i; enlil is <<>> (enlilList absent) or <<list>>.
Analysis(i, ch, enlil) ==
    LET a0 == [isMostAccurate |-> ch.isMostAccurate, speed |-> SampleSpeed[i],
               halfAngle |-> SampleHalfAngle[i], type |-> SampleType[i]]
        a1 == IF ch.note = <<>> THEN a0 ELSE Set(a0, "note", ch.note[1])
    IN  IF enlil = <<>> THEN a1 ELSE Set(a1, "enlilList", enlil[1])

\* How many simulations each analysis holds: -1 for an absent enlilList.
RECURSIVE SumSims(_, _)
SumSims(shape, n) ==
    IF n = 0 THEN 0
    ELSE SumSims(shape, n - 1) + (IF shape[n] > 0 THEN shape[n] ELSE 0)

Shapes(n) == { sh \in [1..n -> -1..MaxSims] : SumSims(sh, n) <= MaxSims }

\* The analyses of a CME with the given shape, the simulations taken in
\* order from the flat list sims.
AnalysisList(shape, chs, sims) ==
    [i \in 1..Len(shape) |->
        Analysis(i, chs[i],
                 IF shape[i] < 0 THEN <<>>
                 ELSE << [j \in 1..shape[i] |-> Sim(sims[SumSims(shape, i - 1) + j])] >>)]

RawCME(id, start) ==
    [activityID |-> id, startTime |-> start, note |-> <<>>, link |-> id]

\* CME: cmeAnalyses is optional.  The records with n >= 0 analyses:
IsCMEWith(c, id, start, n) ==
    \E shape \in Shapes(n) :
    \E chs \in [1..n -> AnalysisChoices] :
    \E sims \in [1..SumSims(shape, n) -> SimChoices] :
        c = Set(RawCME(id, start), "cmeAnalyses", AnalysisList(shape, chs, sims))

IsEnrichInput(c) ==
    \/ c = RawCME("CME-A", "2024-03-01T00:00Z")
    \/ \E n \in 0..MaxAnalyses : IsCMEWith(c, "CME-A", "2024-03-01T00:00Z", n)

---------------------------------------------------------------------------
(* SpecEnrich: one call of enhanceCMEData on any record of the input set.  *)

NotCalled == [called |-> FALSE]

DashboardInit ==
    /\ processedCMEs = <<>>
    /\ cmeError = Null
    /\ cmeIsLoading = TRUE
    /\ cmeInFlight = 0
    /\ cmeStarted = 0
    /\ cmeAwaiting = {}
    /\ cmeSettled = Null
    /\ processedFlares = <<>>
    /\ flaresError = Null
    /\ flaresIsLoading = TRUE
    /\ flarePc = "idle"
    /\ flareCmeMap = <<>>
    /\ processedIPS = <<>>
    /\ ipsError = Null
    /\ ipsIsLoading = TRUE
    /\ ipsPc = "idle"
    /\ ipsCmeMap = <<>>

\* No correlation feed is served and no fetchData call is running.
NoFeed ==
    /\ donkiCMEs = <<>>
    /\ donkiFlares = <<>>
    /\ donkiIPS = <<>>

NoFetch ==
    /\ fetchPc = "idle"
    /\ attempt = 0
    /\ maxRetries = 0
    /\ lastError = Null
    /\ requests = <<>>
    /\ delays = <<>>
    /\ fetchResult = Null

\* No tooltip has been rendered.
NoTooltip ==
    /\ tooltipActive = FALSE
    /\ tooltipPayload = <<>>
    /\ tooltipClass = Null

InitEnrich ==
    /\ IsEnrichInput(cme)
    /\ enhanced = NotCalled
    /\ pc = "input"
    /\ DashboardInit
    /\ NoFeed
    /\ NoFetch
    /\ NoTooltip

Enhance ==
    /\ pc = "input"
    /\ enhanced' = enhanceCMEData(cme)
    /\ pc' = "done"
    /\ UNCHANGED <<cme, cmeVars, feedVars, flareVars, ipsVars, fetchVars, tooltipVars>>

NextEnrich == Enhance

SpecEnrich == InitEnrich /\ [][NextEnrich]_vars

---------------------------------------------------------------------------
(* Ranking & Partition Engine: the sort of loadCMEData and the two memoised *)
(* views earthDirectedCMEs and otherCMEs.                                  *)

\* new Date(t).getTime(), in hours from 2024-03-01T00:00Z
getTime(t) ==
    CASE t = "2024-03-01T00:00Z" -> 0
      [] t = "2024-03-01T06:00Z" -> 6
      [] t = "2024-03-01T08:00Z" -> 8
      [] t = "2024-03-01T12:00Z" -> 12
      [] t = "2024-03-01T20:00Z" -> 20
      [] t = "2024-03-02T06:00Z" -> 30
      [] t = "2024-03-02T09:00Z" -> 33
      [] t = "2024-03-03T03:00Z" -> 51
      [] t = "2024-03-03T15:00Z" -> 63

\* Array.prototype.sort (stable) with a consistent comparator, given as the
\* matrix cmp[i][j] of the comparator's results on list[i], list[j].
sort(list, cmp) ==
    LET before(i) == { j \in 1..Len(list) :
                         \/ cmp[j][i] < 0
                         \/ cmp[j][i] = 0 /\ j < i }
    IN  [p \in 1..Len(list) |->
            list[CHOOSE i \in 1..Len(list) : Cardinality(before(i)) = p - 1]]

\* (a, b) => new Date(b.startTime).getTime() - new Date(a.startTime).getTime()
byStartTimeDesc(a, b) == getTime(b.startTime) - getTime(a.startTime)

\* cme.earthImpactScore || Infinity
scoreOrInfinity(c) ==
    IF Has(c, "earthImpactScore") /\ c.earthImpactScore # 0
    THEN c.earthImpactScore ELSE Infinity

\* a.displayEnlilArrivalTime ? new Date(a.displayEnlilArrivalTime).getTime() : Infinity
arrivalOrInfinity(c) ==
    IF Has(c, "displayEnlilArrivalTime") /\ TruthyStr(c.displayEnlilArrivalTime)
    THEN getTime(c.displayEnlilArrivalTime[1]) ELSE Infinity

\* Mutant: the arrival times of two score-1 entries are not compared.
byEarthImpact_noArrival(a, b) ==
    IF a.earthImpactScore # b.earthImpactScore
    THEN scoreOrInfinity(a) - scoreOrInfinity(b)
    ELSE byStartTimeDesc(a, b)

\* The comparator of earthDirectedCMEs.
byEarthImpact(a, b) ==
    IF a.earthImpactScore # b.earthImpactScore
    THEN scoreOrInfinity(a) - scoreOrInfinity(b)
    ELSE IF /\ a.earthImpactScore = 1 /\ b.earthImpactScore = 1
            /\ arrivalOrInfinity(a) # arrivalOrInfinity(b)
         THEN arrivalOrInfinity(a) - arrivalOrInfinity(b)
         ELSE byStartTimeDesc(a, b)

isEarthDirected(c) == scoreOrInfinity(c) <= 3

earthDirectedOf(list) ==
    LET kept == SelectSeq(list, isEarthDirected)
    IN  sort(kept, [i \in 1..Len(kept) |->
                      [j \in 1..Len(kept) |-> byEarthImpact(kept[i], kept[j])]])

\* processedCMEs.filter(cme => !earthDirectedCMEs.find(ed => ed.activityID === cme.activityID))
otherOf(list) ==
    LET ed == earthDirectedOf(list)
        keep(c) == ~ \E i \in 1..Len(ed) : ed[i].activityID = c.activityID
    IN  SelectSeq(list, keep)

earthDirectedCMEs == earthDirectedOf(processedCMEs)
otherCMEs == otherOf(processedCMEs)

---------------------------------------------------------------------------
(* The feeds fetchDonkiCMEs can resolve with.                              *)

FeedSim(gb, arrival) ==
    [isEarthGB |-> gb, estimatedShockArrivalTime |-> arrival, estimatedDuration |-> Null]

FeedAnalysis(acc, note, enlilList) ==
    [isMostAccurate |-> acc, speed |-> 450, halfAngle |-> 35, type |-> "C",
     note |-> note, enlilList |-> enlilList]

\* One analysis list for each score the engine gives.
AnalysesScore1At12 == <<FeedAnalysis(TRUE, NoteOther, <<FeedSim(<<TRUE>>, <<"2024-03-01T12:00Z">>)>>)>>
AnalysesScore1At08 == <<FeedAnalysis(TRUE, NoteOther, <<FeedSim(<<TRUE>>, <<"2024-03-01T08:00Z">>)>>)>>
AnalysesScore2 == <<FeedAnalysis(FALSE, NoteOther, <<FeedSim(<<TRUE>>, Null)>>)>>
AnalysesScore3 == <<FeedAnalysis(FALSE, NoteEarth, <<>>)>>
AnalysesScore4 == <<FeedAnalysis(FALSE, NoteOther, <<FeedSim(<<FALSE>>, Null)>>)>>

FeedCME(id, start, analyses) == Set(RawCME(id, start), "cmeAnalyses", analyses)

\* activityIDs are not unique within the pool: the feed is not validated.
FeedCMEs ==
    { FeedCME("CME-A", "2024-03-01T00:00Z", AnalysesScore1At12),
      FeedCME("CME-B", "2024-03-01T06:00Z", AnalysesScore1At08),
      FeedCME("CME-C", "2024-03-01T06:00Z", AnalysesScore1At12),
      FeedCME("CME-B", "2024-03-01T00:00Z", AnalysesScore2),
      FeedCME("CME-C", "2024-03-01T00:00Z", AnalysesScore3),
      FeedCME("CME-A", "2024-03-01T06:00Z", AnalysesScore4),
      FeedCME("CME-D", "2024-03-01T00:00Z", AnalysesScore1At08),
      RawCME("CME-A", "2024-03-01T08:00Z"),
      RawCME("CME-D", "2024-03-01T00:00Z") }

Feeds == UNION { [1..n -> FeedCMEs] : n \in 0..MaxFeed }

\* What a rejected fetch carries: err.message
FetchErrors == { <<"API Error (503)">>, <<"Could not connect">> }

---------------------------------------------------------------------------
(* Dashboard: loadCMEData, started by the mount effect and by the refresh  *)
(* timer, suspended at `await fetchDonkiCMEs(...)`.                        *)

NoCall ==
    /\ cme = RawCME("CME-A", "2024-03-01T00:00Z")
    /\ enhanced = NotCalled
    /\ pc = "input"

Init == NoCall /\ DashboardInit /\ NoFeed /\ NoFetch /\ NoTooltip

\* loadCMEData up to its await: setCmeIsLoading(true); setCmeError(null)
LoadCMEStart ==
    /\ cmeInFlight < MaxInFlight
    /\ cmeStarted < MaxPasses
    /\ cmeIsLoading' = TRUE
    /\ cmeError' = Null
    /\ cmeInFlight' = cmeInFlight + 1
    /\ cmeStarted' = cmeStarted + 1
    /\ cmeAwaiting' = cmeAwaiting \cup {cmeStarted + 1}
    /\ UNCHANGED <<enrichVars, processedCMEs, cmeSettled, feedVars, flareVars, ipsVars,
                   fetchVars, tooltipVars>>

\* The map/sort/store of one fetched feed.
enhanceAndSort(feed) ==
    LET enhancedCMEs == [i \in 1..Len(feed) |-> enhanceCMEData(feed[i])]
    IN  sort(enhancedCMEs,
             [i \in 1..Len(feed) |->
                [j \in 1..Len(feed) |-> byStartTimeDesc(enhancedCMEs[i], enhancedCMEs[j])]])

\* What fetchDonkiCMEs rejects with: fetchData throws instances of Error.
FetchRejections == { [name |-> "Error", message |-> msg[1]] : msg \in FetchErrors }

\* err instanceof Error
instanceofError(err) == err.name \in {"Error", "NonRetryableError", "TypeError"}

\* Mutant: the fallback text is stored whatever was thrown.
errorMessage_fallback(err, fallback) == <<fallback>>

\* err instanceof Error ? err.message : fallback
errorMessage(err, fallback) ==
    IF instanceofError(err) THEN <<err.message>> ELSE <<fallback>>

\* The settled promise of pass p: resolved with feed, or rejected with err.
Resolved(p, feed) == <<[pass |-> p, rejected |-> FALSE, feed |-> feed, error |-> Null]>>
Rejected(p, err) == <<[pass |-> p, rejected |-> TRUE, feed |-> <<>>, error |-> <<err>>]>>

\* Mutant: the enhanced records are added to the stored list.
LoadCMEResolve_append ==
    /\ cmeInFlight > 0
    /\ \E p \in cmeAwaiting, feed \in Feeds :
          /\ processedCMEs' = processedCMEs \o enhanceAndSort(feed)
          /\ cmeAwaiting' = cmeAwaiting \ {p}
          /\ cmeSettled' = Resolved(p, feed)
    /\ cmeIsLoading' = FALSE
    /\ cmeInFlight' = cmeInFlight - 1
    /\ UNCHANGED <<enrichVars, cmeError, cmeStarted, feedVars, flareVars, ipsVars,
                   fetchVars, tooltipVars>>

\* the fetch of a pass resolves: try-branch and finally
LoadCMEResolve ==
    /\ cmeInFlight > 0
    /\ \E p \in cmeAwaiting, feed \in Feeds :
          /\ processedCMEs' = enhanceAndSort(feed)
          /\ cmeAwaiting' = cmeAwaiting \ {p}
          /\ cmeSettled' = Resolved(p, feed)
    /\ cmeIsLoading' = FALSE
    /\ cmeInFlight' = cmeInFlight - 1
    /\ UNCHANGED <<enrichVars, cmeError, cmeStarted, feedVars, flareVars, ipsVars,
                   fetchVars, tooltipVars>>

\* the fetch of a pass rejects: catch-branch and finally
LoadCMEReject ==
    /\ cmeInFlight > 0
    /\ \E p \in cmeAwaiting, err \in FetchRejections :
          /\ cmeError' = errorMessage(err, "Failed to load CME data.")
          /\ cmeAwaiting' = cmeAwaiting \ {p}
          /\ cmeSettled' = Rejected(p, err)
    /\ processedCMEs' = <<>>
    /\ cmeIsLoading' = FALSE
    /\ cmeInFlight' = cmeInFlight - 1
    /\ UNCHANGED <<enrichVars, cmeStarted, feedVars, flareVars, ipsVars, fetchVars, tooltipVars>>

Next == LoadCMEStart \/ LoadCMEResolve \/ LoadCMEReject

Spec == Init /\ [][Next]_vars

---------------------------------------------------------------------------
(* Event Correlation Engine: the lookup map of enhanced CMEs and the       *)
(* annotation of flares and shocks with it.                                *)

\* o without property k: k holds undefined
Unset(o, k) == [x \in DOMAIN o \ {k} |-> o[x]]

\* { ...o, k: v } where v is <<>> for undefined and <<x>> for the value x
SetOrUndefined(o, k, v) == IF v = <<>> THEN Unset(o, k) ELSE Set(o, k, v[1])

\* Mutant: the first record of an activityID stays in the map.
cmeMapOf_firstWins(list) ==
    [id \in {list[i].activityID : i \in 1..Len(list)} |->
        list[CHOOSE i \in 1..Len(list) :
                /\ list[i].activityID = id
                /\ \A j \in 1..Len(list) : list[j].activityID = id => i <= j]]

\* const cmeMap = new Map<string, EnhancedCME>();
\* list.forEach(cme => cmeMap.set(cme.activityID, cme))
cmeMapOf(list) ==
    [id \in {list[i].activityID : i \in 1..Len(list)} |->
        list[CHOOSE i \in 1..Len(list) :
                /\ list[i].activityID = id
                /\ \A j \in 1..Len(list) : list[j].activityID = id => j <= i]]

\* rawCmes.map(enhanceCMEData), then the map of the result
enhancedCmeMap(rawCmes) ==
    cmeMapOf([i \in 1..Len(rawCmes) |-> enhanceCMEData(rawCmes[i])])

\* The AssociatedCMEInfo pushed for a resolved reference (lines 182-188).
associatedCMEInfo(linkedEnhancedCME) ==
    [activityID |-> linkedEnhancedCME.activityID,
     startTime |-> linkedEnhancedCME.startTime,
     note |-> linkedEnhancedCME.note,
     link |-> linkedEnhancedCME.link,
     earthImpactScore |-> linkedEnhancedCME.earthImpactScore]

\* Mutant: the forEach stops at the first reference that resolves.
linkedCMEInfos_firstOnly(flare, map) ==
    IF Has(flare, "linkedEvents")
    THEN LET resolves(le) == le.activityID \in DOMAIN map
             resolved == SelectSeq(flare.linkedEvents, resolves)
         IN  IF resolved = <<>> THEN <<>>
             ELSE <<associatedCMEInfo(map[resolved[1].activityID])>>
    ELSE <<>>

\* linkedCMEInfos after `if (flare.linkedEvents) flare.linkedEvents.forEach(...)`
linkedCMEInfos(flare, map) ==
    IF Has(flare, "linkedEvents")
    THEN LET resolves(le) == le.activityID \in DOMAIN map
             resolved == SelectSeq(flare.linkedEvents, resolves)
         IN  [i \in 1..Len(resolved) |-> associatedCMEInfo(map[resolved[i].activityID])]
    ELSE <<>>

\* Mutant: the (possibly empty) list is always attached.
annotateFlare_always(flare, map) ==
    Set(flare, "associatedCMEs", linkedCMEInfos(flare, map))

\* { ...flare, associatedCMEs: linkedCMEInfos.length > 0 ? linkedCMEInfos : undefined }
annotateFlare(flare, map) ==
    LET infos == linkedCMEInfos(flare, map)
    IN  IF Len(infos) > 0
        THEN Set(flare, "associatedCMEs", infos)
        ELSE Unset(flare, "associatedCMEs")

\* Mutant: no break, the last reference that resolves is kept.
linkedCME_last(ips, map) ==
    IF Has(ips, "linkedEvents")
    THEN LET hits == {i \in 1..Len(ips.linkedEvents) :
                        ips.linkedEvents[i].activityID \in DOMAIN map}
         IN  IF hits = {} THEN <<>>
             ELSE <<map[ips.linkedEvents[CHOOSE i \in hits : \A j \in hits : i >= j].activityID]>>
    ELSE <<>>

\* The CME the for-loop of lines 225-236 breaks at: <<>> when it reaches the
\* end of linkedEvents (or linkedEvents is absent), <<linkedCME>> otherwise.
linkedCME(ips, map) ==
    IF Has(ips, "linkedEvents")
    THEN LET hit == find(ips.linkedEvents,
                         {i \in 1..Len(ips.linkedEvents) :
                            ips.linkedEvents[i].activityID \in DOMAIN map})
         IN  IF hit = <<>> THEN <<>> ELSE <<map[hit[1].activityID]>>
    ELSE <<>>

\* linkedCME.displayAnalysisSpeed || undefined
speedOrUndefined(c) ==
    IF Has(c, "displayAnalysisSpeed") /\ c.displayAnalysisSpeed # 0
    THEN <<c.displayAnalysisSpeed>> ELSE <<>>

\* { ...ips, associatedCMESpeed, associatedCMEStartTime, associatedCMELink,
\*   associatedCMEActivityID }
annotateShock(ips, map) ==
    LET c == linkedCME(ips, map)
        s1 == SetOrUndefined(ips, "associatedCMESpeed",
                             IF c = <<>> THEN <<>> ELSE speedOrUndefined(c[1]))
        s2 == SetOrUndefined(s1, "associatedCMEStartTime",
                             IF c = <<>> THEN <<>> ELSE <<c[1].startTime>>)
        s3 == SetOrUndefined(s2, "associatedCMELink",
                             IF c = <<>> THEN <<>> ELSE <<c[1].link>>)
    IN  SetOrUndefined(s3, "associatedCMEActivityID",
                       IF c = <<>> THEN <<>> ELSE <<c[1].activityID>>)

\* (a, b) => new Date(b.beginTime).getTime() - new Date(a.beginTime).getTime()
byBeginTimeDesc(a, b) == getTime(b.beginTime) - getTime(a.beginTime)

\* (a, b) => new Date(b.eventTime).getTime() - new Date(a.eventTime).getTime()
byEventTimeDesc(a, b) == getTime(b.eventTime) - getTime(a.eventTime)

\* solarFlares.map(flare => ...) and the sort of the result (lines 176-195)
correlateFlares(solarFlares, map) ==
    LET annotated == [i \in 1..Len(solarFlares) |-> annotateFlare(solarFlares[i], map)]
    IN  sort(annotated,
             [i \in 1..Len(annotated) |->
                [j \in 1..Len(annotated) |-> byBeginTimeDesc(annotated[i], annotated[j])]])

\* ipsEvents.map(ips => ...) and the sort of the result (lines 219-240)
correlateShocks(ipsEvents, map) ==
    LET annotated == [i \in 1..Len(ipsEvents) |-> annotateShock(ipsEvents[i], map)]
    IN  sort(annotated,
             [i \in 1..Len(annotated) |->
                [j \in 1..Len(annotated) |-> byEventTimeDesc(annotated[i], annotated[j])]])

---------------------------------------------------------------------------
(* The feeds of a correlation pass.                                        *)

\* Two records share the activityID CME-A; the analysis of CME-B has speed 0.
CorrelationCMEs ==
    { FeedCME("CME-A", "2024-03-01T00:00Z", AnalysesScore1At12),
      RawCME("CME-A", "2024-03-01T08:00Z"),
      FeedCME("CME-B", "2024-03-01T06:00Z",
              <<Analysis(1, [isMostAccurate |-> TRUE, note |-> <<>>], <<>>)>>) }

CorrelationFeeds == UNION { [1..n -> CorrelationCMEs] : n \in 0..MaxCorrCMEs }

\* The activityIDs a linkedEvents entry can hold; CME-X is in no CME feed.
LinkedIDs == {"CME-A", "CME-B", "CME-X"}

\* linkedEvents?: { activityID: string }[] when present
LinkedEventLists ==
    UNION { [1..n -> [activityID : LinkedIDs]] : n \in 0..MaxLinked }

\* linkedEvents?: <<>> when the property is absent, <<list>> when present
LinkChoices == {<<>>} \cup { <<l>> : l \in LinkedEventLists }

\* The feeds are not in display order: the event at position i begins at
EventTimes == <<"2024-03-03T03:00Z", "2024-03-03T15:00Z">>
EventIDs == <<"2024-03-03T03:00:00-001", "2024-03-03T15:00:00-001">>

\* What a rejected fetch of a correlation pass carries: err.message
CorrelationFetchErrors == { <<"Could not connect">> }

\* SolarFlare at position i of the flare feed
Flare(i, links) ==
    LET f == [flrID |-> EventIDs[i], beginTime |-> EventTimes[i],
              classType |-> "M1.0", link |-> EventIDs[i]]
    IN  IF links = <<>> THEN f ELSE Set(f, "linkedEvents", links[1])

\* InterplanetaryShock at position i of the shock feed
Shock(i, links) ==
    LET x == [ipsID |-> EventIDs[i], eventTime |-> EventTimes[i],
              locatioN |-> "Earth", link |-> EventIDs[i]]
    IN  IF links = <<>> THEN x ELSE Set(x, "linkedEvents", links[1])

---------------------------------------------------------------------------
(* SpecCorrelate: one pass of loadFlareAndCorrelateData and one pass of    *)
(* loadIPSAndCorrelateData, interleaved, over the feeds the endpoints      *)
(* serve.  The flare and the shock at one position of their feeds hold the *)
(* same linkedEvents.                                                      *)

InitCorrelate ==
    /\ NoCall
    /\ DashboardInit
    /\ NoFetch
    /\ NoTooltip
    /\ donkiCMEs \in CorrelationFeeds
    /\ \E n \in 0..MaxEvents :
       \E links \in [1..n -> LinkChoices] :
          /\ donkiFlares = [i \in 1..n |-> Flare(i, links[i])]
          /\ donkiIPS = [i \in 1..n |-> Shock(i, links[i])]

\* loadFlareAndCorrelateData up to its first await
LoadFlareStart ==
    /\ flarePc = "idle"
    /\ flaresIsLoading' = TRUE
    /\ flaresError' = Null
    /\ flarePc' = "awaitCMEs"
    /\ UNCHANGED <<flareCmeMap, processedFlares>>
    /\ UNCHANGED <<enrichVars, cmeVars, feedVars, ipsVars, fetchVars, tooltipVars>>

\* fetchDonkiCMEs resolves: lines 169-173, up to the await of line 175
FlareCMEsResolve ==
    /\ flarePc = "awaitCMEs"
    /\ flareCmeMap' = enhancedCmeMap(donkiCMEs)
    /\ flarePc' = "awaitFlares"
    /\ UNCHANGED <<processedFlares, flaresError, flaresIsLoading>>
    /\ UNCHANGED <<enrichVars, cmeVars, feedVars, ipsVars, fetchVars, tooltipVars>>

\* Mutant: the annotations are written into the fetched flare records.
FlaresResolve_inPlace ==
    /\ flarePc = "awaitFlares"
    /\ processedFlares' = correlateFlares(donkiFlares, flareCmeMap)
    /\ donkiFlares' = [i \in 1..Len(donkiFlares) |-> annotateFlare(donkiFlares[i], flareCmeMap)]
    /\ flaresIsLoading' = FALSE
    /\ flarePc' = "done"
    /\ UNCHANGED <<flareCmeMap, flaresError, donkiCMEs, donkiIPS>>
    /\ UNCHANGED <<enrichVars, cmeVars, ipsVars, fetchVars, tooltipVars>>

\* fetchDonkiSolarFlares resolves: lines 175-196 and the finally
FlaresResolve ==
    /\ flarePc = "awaitFlares"
    /\ processedFlares' = correlateFlares(donkiFlares, flareCmeMap)
    /\ flaresIsLoading' = FALSE
    /\ flarePc' = "done"
    /\ UNCHANGED <<flareCmeMap, flaresError>>
    /\ UNCHANGED <<enrichVars, cmeVars, feedVars, ipsVars, fetchVars, tooltipVars>>

\* either fetch rejects: the catch of lines 198-202 and the finally
FlareReject ==
    /\ flarePc \in {"awaitCMEs", "awaitFlares"}
    /\ \E msg \in CorrelationFetchErrors : flaresError' = msg
    /\ processedFlares' = <<>>
    /\ flaresIsLoading' = FALSE
    /\ flarePc' = "done"
    /\ UNCHANGED flareCmeMap
    /\ UNCHANGED <<enrichVars, cmeVars, feedVars, ipsVars, fetchVars, tooltipVars>>

\* loadIPSAndCorrelateData up to its first await
LoadIPSStart ==
    /\ ipsPc = "idle"
    /\ ipsIsLoading' = TRUE
    /\ ipsError' = Null
    /\ ipsPc' = "awaitCMEs"
    /\ UNCHANGED <<ipsCmeMap, processedIPS>>
    /\ UNCHANGED <<enrichVars, cmeVars, feedVars, flareVars, fetchVars, tooltipVars>>

\* fetchDonkiCMEs resolves: lines 212-216, up to the await of line 218
IPSCMEsResolve ==
    /\ ipsPc = "awaitCMEs"
    /\ ipsCmeMap' = enhancedCmeMap(donkiCMEs)
    /\ ipsPc' = "awaitIPS"
    /\ UNCHANGED <<processedIPS, ipsError, ipsIsLoading>>
    /\ UNCHANGED <<enrichVars, cmeVars, feedVars, flareVars, fetchVars, tooltipVars>>

\* fetchDonkiIPS resolves: lines 218-241 and the finally
IPSResolve ==
    /\ ipsPc = "awaitIPS"
    /\ processedIPS' = correlateShocks(donkiIPS, ipsCmeMap)
    /\ ipsIsLoading' = FALSE
    /\ ipsPc' = "done"
    /\ UNCHANGED <<ipsCmeMap, ipsError>>
    /\ UNCHANGED <<enrichVars, cmeVars, feedVars, flareVars, fetchVars, tooltipVars>>

\* either fetch rejects: the catch of lines 243-247 and the finally
IPSReject ==
    /\ ipsPc \in {"awaitCMEs", "awaitIPS"}
    /\ \E msg \in CorrelationFetchErrors : ipsError' = msg
    /\ processedIPS' = <<>>
    /\ ipsIsLoading' = FALSE
    /\ ipsPc' = "done"
    /\ UNCHANGED ipsCmeMap
    /\ UNCHANGED <<enrichVars, cmeVars, feedVars, flareVars, fetchVars, tooltipVars>>

NextCorrelate ==
    \/ LoadFlareStart \/ FlareCMEsResolve \/ FlaresResolve \/ FlareReject
    \/ LoadIPSStart \/ IPSCMEsResolve \/ IPSResolve \/ IPSReject

SpecCorrelate == InitCorrelate /\ [][NextCorrelate]_vars

---------------------------------------------------------------------------
(* Fetch client (src/unnamed/part_001): one call of fetchData.             *)

\* initialDelayMs = 1000
DefaultInitialDelayMs == 1000

\* What one `await fetch(url)` of the loop settles with: a response with a
\* status and a body that parses as JSON or not, or a rejection (status 0).
Response(status, json) == [settled |-> "response", status |-> status, json |-> json]
Rejection == [settled |-> "rejection", status |-> 0, json |-> FALSE]

Statuses == {200, 304, 400, 404, 429, 499, 500, 503}

Responses == { Response(st, js) : st \in Statuses, js \in BOOLEAN } \cup {Rejection}

\* Errors: the class name and the parts of the message.
Error(name, text, status, attempts, details) ==
    [name |-> name,
     message |-> [text |-> text, status |-> status, attempts |-> attempts,
                  details |-> details]]

\* `API Error (${response.status}) from ${url}: ${errorMessage}`
httpErrorMessage(name, status) == Error(name, "API Error", status, 0, "")

\* What fetch() rejects with, and what response.json() throws on a bad body.
FailedToFetch == Error("TypeError", "Failed to fetch", 0, 0, "")
JsonSyntaxError == Error("SyntaxError", "Unexpected token", 0, 0, "")

\* The value a successful call returns.
JsonData == Error("data", "json", 200, 0, "")

\* response.ok
ok(r) == r.status >= 200 /\ r.status <= 299

\* Mutant: 400 itself is taken for retryable.
isClientError_above400(status) == status > 400 /\ status < 500

\* response.status >= 400 && response.status < 500
isClientError(status) == status >= 400 /\ status < 500

\* Math.pow(2, attempt)
RECURSIVE pow2(_)
pow2(n) == IF n = 0 THEN 1 ELSE 2 * pow2(n - 1)

\* Mutant: the same delay before every retry.
delay_constant(n) == DefaultInitialDelayMs

\* initialDelayMs * Math.pow(2, attempt)
delay(n) == DefaultInitialDelayMs * pow2(n)

\* The error thrown at line 69, built from lastError at the last attempt.
finalError(last, retries) ==
    IF last.message.text = "Failed to fetch"
    THEN Error("Error", "Could not connect", last.message.status, retries + 1,
               last.message.text)
    ELSE Error("Error", "Failed to fetch data", last.message.status, retries + 1,
               last.message.text)

\* The catch block of lines 50-75 for an error that is not a
\* NonRetryableError, at the current attempt.
CatchRetryable(error) ==
    /\ lastError' = <<error>>
    /\ IF attempt = maxRetries
       THEN /\ fetchPc' = "thrown"
            /\ fetchResult' = <<finalError(error, maxRetries)>>
            /\ UNCHANGED delays
       ELSE /\ fetchPc' = "backoff"
            /\ delays' = Append(delays, delay(attempt))
            /\ UNCHANGED fetchResult

InitFetch ==
    /\ NoCall
    /\ DashboardInit
    /\ NoFeed
    /\ NoTooltip
    /\ maxRetries \in 0..MaxMaxRetries
    /\ fetchPc = "request"
    /\ attempt = 0
    /\ lastError = Null
    /\ requests = <<>>
    /\ delays = <<>>
    /\ fetchResult = Null

\* `await fetch(url)` settles with r; the body of the try and the catch run
\* up to the return, the throw or the setTimeout of this attempt.
FetchSettles ==
    /\ fetchPc = "request"
    /\ \E r \in Responses :
          /\ requests' = Append(requests, r)
          /\ IF r.settled = "rejection"
             THEN CatchRetryable(FailedToFetch)
             ELSE IF ok(r)
             THEN IF r.json
                  THEN /\ fetchPc' = "returned"
                       /\ fetchResult' = <<JsonData>>
                       /\ UNCHANGED <<lastError, delays>>
                  ELSE CatchRetryable(JsonSyntaxError)
             ELSE IF isClientError(r.status)
             THEN /\ fetchPc' = "thrown"
                  /\ fetchResult' = <<httpErrorMessage("NonRetryableError", r.status)>>
                  /\ UNCHANGED <<lastError, delays>>
             ELSE IF attempt < maxRetries
             THEN /\ lastError' = <<httpErrorMessage("Error", r.status)>>
                  /\ fetchPc' = "backoff"
                  /\ delays' = Append(delays, delay(attempt))
                  /\ UNCHANGED fetchResult
             ELSE CatchRetryable(httpErrorMessage("Error", r.status))
    /\ UNCHANGED <<attempt, maxRetries>>
    /\ UNCHANGED <<enrichVars, cmeVars, feedVars, flareVars, ipsVars, tooltipVars>>

\* The setTimeout promise resolves: attempt++ and the loop condition; below
\* the loop, `if (lastError) throw lastError`.
BackoffElapsed ==
    /\ fetchPc = "backoff"
    /\ attempt' = attempt + 1
    /\ IF attempt + 1 <= maxRetries
       THEN fetchPc' = "request" /\ UNCHANGED fetchResult
       ELSE /\ fetchPc' = "thrown"
            /\ fetchResult' = IF lastError # Null THEN lastError
                              ELSE <<Error("Error", "Exhausted retries", 0, 0, "")>>
    /\ UNCHANGED <<maxRetries, lastError, requests, delays>>
    /\ UNCHANGED <<enrichVars, cmeVars, feedVars, flareVars, ipsVars, tooltipVars>>

NextFetch == FetchSettles \/ BackoffElapsed

SpecFetch == InitFetch /\ [][NextFetch]_vars

\* Every fetch settles and every backoff timer fires.
SpecFetchLive == SpecFetch /\ WF_vars(FetchSettles) /\ WF_vars(BackoffElapsed)

---------------------------------------------------------------------------
(* The X-ray flux tooltip: CustomTooltip of the XRayFluxChart.  A flux is  *)
(* an integer number of nW/m^2 (1e-9 W/m^2), so that the thresholds 1e-8   *)
(* .. 1e-4 W/m^2 are 10 .. 100000.                                         *)

\* Largest decimal exponent of the fluxes hovered: up to 9e-3 W/m^2.
MaxFluxExponent == 6

\* The thresholds in the order of the array: strongest class first.
XRAY_FLUX_THRESHOLDS ==
    << [name |-> "X", value |-> 100000],
       [name |-> "M", value |-> 10000],
       [name |-> "C", value |-> 1000],
       [name |-> "B", value |-> 100],
       [name |-> "A", value |-> 10] >>

RECURSIVE pow10(_)
pow10(k) == IF k = 0 THEN 1 ELSE 10 * pow10(k - 1)

\* The observed_flux values of the points hovered: 0 and m * 10^k nW/m^2.
Fluxes == {0} \cup { m * pow10(k) : m \in 1..9, k \in 0..MaxFluxExponent }

\* A data point of the chart, as recharts hands it to the tooltip.
PayloadEntry(flux) == [payload |-> [observed_flux |-> flux]]

\* The payload prop: no entry, or the entry of the hovered point.
Payloads == {<<>>} \cup { <<PayloadEntry(f)>> : f \in Fluxes }

\* The loop `for (i = ...; i >= 0; i--)` from index i (1-based here) down:
\* the name of the first entry met whose value is <= flux, then break;
\* 'A', the initial value, when the loop runs out.
RECURSIVE classifyFrom(_, _)
classifyFrom(i, flux) ==
    IF i < 1 THEN "A"
    ELSE IF flux >= XRAY_FLUX_THRESHOLDS[i].value
         THEN XRAY_FLUX_THRESHOLDS[i].name
         ELSE classifyFrom(i - 1, flux)

\* let classification = 'A'; for (i = XRAY_FLUX_THRESHOLDS.length - 1; ...)
classification(flux) == classifyFrom(Len(XRAY_FLUX_THRESHOLDS), flux)

\* What CustomTooltip renders: the class of payload[0].payload, or nothing.
CustomTooltip(active, payload) ==
    IF active /\ Len(payload) > 0
    THEN <<classification(payload[1].payload.observed_flux)>>
    ELSE Null

InitTooltip == NoCall /\ DashboardInit /\ NoFeed /\ NoFetch /\ NoTooltip

\* The chart renders the tooltip: the pointer is over a point or has left.
RenderTooltip ==
    /\ \E active \in BOOLEAN, payload \in Payloads :
          /\ tooltipActive' = active
          /\ tooltipPayload' = payload
          /\ tooltipClass' = CustomTooltip(active, payload)
    /\ UNCHANGED <<enrichVars, cmeVars, feedVars, flareVars, ipsVars, fetchVars>>

NextTooltip == RenderTooltip

SpecTooltip == InitTooltip /\ [][NextTooltip]_vars

---------------------------------------------------------------------------
(* The claims.  The definitions below restate the claims in their own      *)
(* terms; they do not use the engine's operators for what they test.       *)

DisplayAnalysisKeys ==
    {"displayAnalysisSpeed", "displayAnalysisHalfAngle", "displayAnalysisType",
     "displayAnalysisNote"}
DisplayEnlilKeys ==
    {"displayEnlilArrivalTime", "displayEnlilDuration", "displayEnlilImpactLocations"}

ScoreValues == {1, 2, 3, 4, Infinity}

\* The analyses and simulations of a record, empty when the list is absent.
AnalysesOf(c) == IF Has(c, "cmeAnalyses") THEN c.cmeAnalyses ELSE <<>>
SimsOf(a) == IF Has(a, "enlilList") THEN a.enlilList ELSE <<>>

\* The least element of a non-empty set of indices; 0 for the empty set.
Least(I) == IF I = {} THEN 0 ELSE CHOOSE i \in I : \A j \in I : i <= j

\* Position of the relevant analysis: the first one flagged most accurate,
\* else the first one; 0 when there is no analysis.
RelevantIndex(c) ==
    LET as == AnalysesOf(c)
        flagged == {i \in 1..Len(as) : as[i].isMostAccurate}
    IN  IF flagged # {} THEN Least(flagged) ELSE Least(1..Len(as))

EarthFlagged(s) ==
    \/ s.isEarthGB = <<TRUE>>
    \/ Has(s, "impactList") /\ \E k \in 1..Len(s.impactList) : s.impactList[k].location = "Earth"

BearsArrival(s) == s.estimatedShockArrivalTime # Null

\* Position of the primary Earth simulation of an analysis; 0 when none.
PrimaryIndex(a) == Least({k \in 1..Len(SimsOf(a)) : EarthFlagged(SimsOf(a)[k])})

\* Of the notes of the input set, NoteEarth alone contains "earth" in any case.
NoteHasEarth(a) == Has(a, "note") /\ a.note = NoteEarth

SomeImpactList(a) ==
    \E k \in 1..Len(SimsOf(a)) :
        Has(SimsOf(a)[k], "impactList") /\ SimsOf(a)[k].impactList # <<>>

Called == pc = "done"
Relevant == AnalysesOf(cme)[RelevantIndex(cme)]
Primary == SimsOf(Relevant)[PrimaryIndex(Relevant)]
HasRelevant == RelevantIndex(cme) # 0
HasPrimary == HasRelevant /\ PrimaryIndex(Relevant) # 0

\* How often x occurs in list.
Count(x, list) == Cardinality({i \in 1..Len(list) : list[i] = x})

\* C1 (as claimed): every element of processedCMEs, activityIDs not assumed
\* unique, occurs in earthDirectedCMEs and otherCMEs together exactly as often
\* as in processedCMEs, in earthDirectedCMEs only if its score is <= 3 and in
\* otherCMEs only if it is not.
C1_PartitionComplete ==
    \A i \in 1..Len(processedCMEs) :
        LET x == processedCMEs[i]
        IN  /\ Count(x, earthDirectedCMEs) + Count(x, otherCMEs) = Count(x, processedCMEs)
            /\ x.earthImpactScore <= 3 => Count(x, otherCMEs) = 0
            /\ x.earthImpactScore > 3 => Count(x, earthDirectedCMEs) = 0

\* C2 (as claimed): a CME holding, in any analysis and at any position, an
\* Earth-flagged simulation with a non-null arrival time scores 1.
C2_AnyEarthSimulationScoresOne ==
    Called =>
        ( (\E i \in 1..Len(AnalysesOf(cme)) :
             \E k \in 1..Len(SimsOf(AnalysesOf(cme)[i])) :
                /\ EarthFlagged(SimsOf(AnalysesOf(cme)[i])[k])
                /\ BearsArrival(SimsOf(AnalysesOf(cme)[i])[k]))
          => enhanced.earthImpactScore = 1 )

\* C2 (amended): when the first Earth-flagged simulation of the relevant
\* analysis bears a non-null arrival time, the score is 1.
C2_PrimaryWithArrivalScoresOne ==
    Called /\ HasPrimary /\ BearsArrival(Primary) => enhanced.earthImpactScore = 1

\* C2 witness: the relevant analysis is the second one, its primary Earth
\* simulation stands second in its list and bears an arrival time.
C2_Witness ==
    /\ Called
    /\ RelevantIndex(cme) = 2
    /\ PrimaryIndex(Relevant) = 2
    /\ BearsArrival(Primary)
    /\ enhanced.earthImpactScore = 1

\* C3 (as claimed): without an Earth-directed simulation in the relevant
\* analysis, the score is 3 exactly when its note mentions "earth" and some
\* simulation of it has a non-empty impact list.
C3_ScoreThreeNeedsImpactList ==
    Called /\ HasRelevant /\ ~HasPrimary =>
        ( enhanced.earthImpactScore = 3
          <=> NoteHasEarth(Relevant) /\ SomeImpactList(Relevant) )

\* C4: with P the first Earth-directed simulation of the relevant analysis,
\* the score is 1 if P's arrival time is non-null and 2 otherwise, and the
\* display arrival time and duration are P's.
C4_PrimarySimulationDecides ==
    Called /\ HasPrimary =>
        /\ enhanced.earthImpactScore = (IF BearsArrival(Primary) THEN 1 ELSE 2)
        /\ Has(enhanced, "displayEnlilArrivalTime")
        /\ enhanced.displayEnlilArrivalTime = Primary.estimatedShockArrivalTime
        /\ Has(enhanced, "displayEnlilDuration")
        /\ enhanced.displayEnlilDuration = Primary.estimatedDuration

\* C4 witness: two Earth-directed simulations in the relevant analysis, the
\* first without arrival time and the second with one; the score is 2.
C4_Witness ==
    /\ Called
    /\ HasPrimary
    /\ Len(SimsOf(Relevant)) = 2
    /\ EarthFlagged(SimsOf(Relevant)[1]) /\ ~BearsArrival(SimsOf(Relevant)[1])
    /\ EarthFlagged(SimsOf(Relevant)[2]) /\ BearsArrival(SimsOf(Relevant)[2])
    /\ enhanced.earthImpactScore = 2

\* C5 (as claimed): without an Earth-directed simulation and without the
\* score-3 rule (note mentions "earth" and a simulation has a non-empty
\* impact list), the score is 4 if the relevant analysis has a simulation and
\* Infinity otherwise, and then no ENLIL display field is present.
C5_ScoreFourOrInfinity ==
    Called /\ HasRelevant /\ ~HasPrimary
           /\ ~(NoteHasEarth(Relevant) /\ SomeImpactList(Relevant)) =>
        /\ enhanced.earthImpactScore = (IF SimsOf(Relevant) # <<>> THEN 4 ELSE Infinity)
        /\ enhanced.earthImpactScore = Infinity => DOMAIN enhanced \cap DisplayEnlilKeys = {}

\* C6: every element of processedCMEs, after any sequence of load passes,
\* has an earthImpactScore among 1, 2, 3, 4 and Infinity.
C6_ScoreInRange ==
    \A i \in 1..Len(processedCMEs) :
        /\ Has(processedCMEs[i], "earthImpactScore")
        /\ processedCMEs[i].earthImpactScore \in ScoreValues

\* C6 witness: a later pass has stored a feed whose records score 2 and
\* Infinity while another pass is in flight.
C6_Witness ==
    /\ cmeInFlight = 1
    /\ Len(processedCMEs) = 2
    /\ \E i, j \in 1..2 :
          /\ processedCMEs[i].earthImpactScore = 2
          /\ processedCMEs[j].earthImpactScore = Infinity

\* C7: on every sparse record (cmeAnalyses, enlilList, impactList or note
\* absent) enhanceCMEData returns the record with a score and a flag added;
\* with zero analyses the score is Infinity, no display field is present and
\* the flag is false.
C7_TotalOnSparseRecords ==
    Called =>
        /\ DOMAIN cme \cup {"earthImpactScore", "isPotentiallyEarthDirected"}
             \subseteq DOMAIN enhanced
        /\ \A k \in DOMAIN cme : enhanced[k] = cme[k]
        /\ enhanced.earthImpactScore \in ScoreValues
        /\ AnalysesOf(cme) = <<>> =>
              /\ enhanced.earthImpactScore = Infinity
              /\ DOMAIN enhanced \cap (DisplayAnalysisKeys \cup DisplayEnlilKeys) = {}
              /\ enhanced.isPotentiallyEarthDirected = FALSE

\* C7 witness: a record with an empty cmeAnalyses list has been enriched.
C7_Witness ==
    /\ Called
    /\ Has(cme, "cmeAnalyses") /\ cme.cmeAnalyses = <<>>
    /\ enhanced.earthImpactScore = Infinity

\* C8: the display analysis fields are those of the first analysis flagged
\* most accurate (the first analysis when none is flagged), and the score is
\* the one the record gets when it holds that analysis alone.
C8_RelevantAnalysisDecides ==
    Called /\ HasRelevant =>
        /\ enhanced.displayAnalysisSpeed = Relevant.speed
        /\ enhanced.displayAnalysisHalfAngle = Relevant.halfAngle
        /\ enhanced.displayAnalysisType = Relevant.type
        /\ IF Has(Relevant, "note")
           THEN Has(enhanced, "displayAnalysisNote")
                /\ enhanced.displayAnalysisNote = Relevant.note
           ELSE ~Has(enhanced, "displayAnalysisNote")
        /\ enhanced.earthImpactScore =
             enhanceCMEData(Set(cme, "cmeAnalyses", <<Relevant>>)).earthImpactScore

\* C8 witness: two analyses are flagged most accurate; the second holds an
\* Earth-directed simulation with an arrival time, the first holds none, and
\* the score is not 1.
C8_Witness ==
    /\ Called
    /\ Len(AnalysesOf(cme)) = 2
    /\ cme.cmeAnalyses[1].isMostAccurate /\ cme.cmeAnalyses[2].isMostAccurate
    /\ PrimaryIndex(cme.cmeAnalyses[1]) = 0
    /\ PrimaryIndex(cme.cmeAnalyses[2]) # 0
    /\ BearsArrival(SimsOf(cme.cmeAnalyses[2])[PrimaryIndex(cme.cmeAnalyses[2])])
    /\ enhanced.earthImpactScore # 1

\* C9: isPotentiallyEarthDirected is true exactly when some analysis of the
\* CME is flagged most accurate, or has a non-empty ENLIL list, or has a note
\* containing "earth" in any case; it is false with zero analyses.
C9_FlagIsRelevance ==
    Called =>
        ( enhanced.isPotentiallyEarthDirected
          <=> \E i \in 1..Len(AnalysesOf(cme)) :
                 \/ AnalysesOf(cme)[i].isMostAccurate
                 \/ SimsOf(AnalysesOf(cme)[i]) # <<>>
                 \/ NoteHasEarth(AnalysesOf(cme)[i]) )

\* C9 witness: only the note of the second analysis makes the CME relevant.
C9_Witness ==
    /\ Called
    /\ Len(AnalysesOf(cme)) = 2
    /\ ~cme.cmeAnalyses[1].isMostAccurate /\ ~cme.cmeAnalyses[2].isMostAccurate
    /\ SimsOf(cme.cmeAnalyses[1]) = <<>> /\ SimsOf(cme.cmeAnalyses[2]) = <<>>
    /\ ~NoteHasEarth(cme.cmeAnalyses[1]) /\ NoteHasEarth(cme.cmeAnalyses[2])
    /\ enhanced.isPotentiallyEarthDirected

\* The arrival time an entry is ranked by within the score-1 group: entries
\* lacking one come last.
ArrivalRank(c) ==
    IF Has(c, "displayEnlilArrivalTime") /\ c.displayEnlilArrivalTime \notin {Null, <<"">>}
    THEN getTime(c.displayEnlilArrivalTime[1]) ELSE Infinity

StartOf(c) == getTime(c.startTime)

\* a is not greater than b in the order of the ranked list.
NotGreater(a, b) ==
    \/ a.earthImpactScore < b.earthImpactScore
    \/ /\ a.earthImpactScore = b.earthImpactScore
       /\ IF a.earthImpactScore = 1 /\ ArrivalRank(a) # ArrivalRank(b)
          THEN ArrivalRank(a) < ArrivalRank(b)
          ELSE StartOf(a) >= StartOf(b)

\* C17: every adjacent pair of earthDirectedCMEs is in order: ascending
\* score, then (both scoring 1) ascending arrival time with entries lacking
\* one last, then descending startTime.
C17_EarthDirectedOrdered ==
    \A i \in 1..(Len(earthDirectedCMEs) - 1) :
        NotGreater(earthDirectedCMEs[i], earthDirectedCMEs[i + 1])

\* C17 witness: two ranked entries scoring 1; the one with the earlier arrival
\* stands first although processedCMEs, in descending startTime order, holds
\* it second.
C17_Witness ==
    /\ Len(earthDirectedCMEs) = 2
    /\ earthDirectedCMEs[1].earthImpactScore = 1
    /\ earthDirectedCMEs[2].earthImpactScore = 1
    /\ ArrivalRank(earthDirectedCMEs[1]) < ArrivalRank(earthDirectedCMEs[2])
    /\ StartOf(earthDirectedCMEs[1]) < StartOf(earthDirectedCMEs[2])
    /\ processedCMEs = <<earthDirectedCMEs[2], earthDirectedCMEs[1]>>

\* The elements of list that satisfy none of the Earth-directed scores.
ScoresFourOrInfinity(c) == c.earthImpactScore \in {4, Infinity}

\* C18 (as claimed): otherCMEs is the subsequence of processedCMEs of the
\* CMEs scoring 4 or Infinity, and it is in descending startTime order.
C18_OtherIsTheRest ==
    /\ otherCMEs = SelectSeq(processedCMEs, ScoresFourOrInfinity)
    /\ \A i \in 1..(Len(otherCMEs) - 1) :
          StartOf(otherCMEs[i]) >= StartOf(otherCMEs[i + 1])

\* C19 (as claimed): with a primary Earth simulation P, the display impact
\* locations are the locations of P's impact entries, or ["Earth Geospace"]
\* when P is Earth-geomagnetic and its impact list is absent or empty.
C19_ImpactLocations ==
    Called /\ HasPrimary =>
        /\ Has(enhanced, "displayEnlilImpactLocations")
        /\ enhanced.displayEnlilImpactLocations =
             ( IF Has(Primary, "impactList") /\ Primary.impactList # <<>>
               THEN [k \in 1..Len(Primary.impactList) |-> Primary.impactList[k].location]
               ELSE IF Primary.isEarthGB = <<TRUE>> THEN <<"Earth Geospace">> ELSE <<>> )

\* The correlation passes that have stored their result.
FlaresDone == flarePc = "done" /\ flaresError = Null
IPSDone == ipsPc = "done" /\ ipsError = Null

AssociatedCMEKeys ==
    {"associatedCMESpeed", "associatedCMEStartTime", "associatedCMELink",
     "associatedCMEActivityID"}

\* The references of a flare or shock, empty when linkedEvents is absent.
LinksOf(x) == IF Has(x, "linkedEvents") THEN x.linkedEvents ELSE <<>>

\* The references that are keys of the map m, in their order.
RECURSIVE KeepResolved(_, _)
KeepResolved(refs, m) ==
    IF refs = <<>> THEN <<>>
    ELSE (IF Head(refs).activityID \in DOMAIN m THEN <<Head(refs)>> ELSE <<>>)
         \o KeepResolved(Tail(refs), m)

\* The stored record of the flare (shock) at position i of its feed.
FlareOut(i) ==
    processedFlares[CHOOSE k \in 1..Len(processedFlares) :
                       processedFlares[k].flrID = donkiFlares[i].flrID]
ShockOut(i) ==
    processedIPS[CHOOSE k \in 1..Len(processedIPS) :
                    processedIPS[k].ipsID = donkiIPS[i].ipsID]

ProjectionsOf(f) == IF Has(f, "associatedCMEs") THEN f.associatedCMEs ELSE <<>>

\* The enriched list of the pass and the last record in it with a given id.
EnrichedCMEs == [i \in 1..Len(donkiCMEs) |-> enhanceCMEData(donkiCMEs[i])]
LastWithID(id) ==
    EnrichedCMEs[CHOOSE i \in 1..Len(EnrichedCMEs) :
                    /\ EnrichedCMEs[i].activityID = id
                    /\ \A j \in (i + 1)..Len(EnrichedCMEs) : EnrichedCMEs[j].activityID # id]

\* C11: no step of a pass changes the records it was handed: the fetched raw
\* CMEs (with their analyses and simulations), flares and shocks stay as
\* fetched, and the enhanced CMEs in the lookup map of a pass stay as built
\* while the pass annotates with them.
C11_InputsNotMutated ==
    [][ /\ donkiCMEs' = donkiCMEs
        /\ donkiFlares' = donkiFlares
        /\ donkiIPS' = donkiIPS
        /\ flarePc = "awaitFlares" => flareCmeMap' = flareCmeMap
        /\ ipsPc = "awaitIPS" => ipsCmeMap' = ipsCmeMap ]_vars

\* C11 witness: both passes have stored annotated copies, and the fetched
\* flares and shocks carry no annotation.
C11_Witness ==
    /\ FlaresDone /\ IPSDone
    /\ \E k \in 1..Len(processedFlares) : Has(processedFlares[k], "associatedCMEs")
    /\ \E k \in 1..Len(processedIPS) : Has(processedIPS[k], "associatedCMEActivityID")
    /\ \A i \in 1..Len(donkiFlares) : ~Has(donkiFlares[i], "associatedCMEs")
    /\ \A i \in 1..Len(donkiIPS) : DOMAIN donkiIPS[i] \cap AssociatedCMEKeys = {}

\* C12: the projections of every stored flare are, in the order of its
\* linkedEvents, one per entry whose activityID is a key of the CME map, each
\* with the five fields of the mapped enhanced CME, and none for the others.
C12_FlareProjections ==
    FlaresDone =>
        \A i \in 1..Len(donkiFlares) :
            LET resolved == KeepResolved(LinksOf(donkiFlares[i]), flareCmeMap)
                proj == ProjectionsOf(FlareOut(i))
            IN  /\ Len(proj) = Len(resolved)
                /\ \A k \in 1..Len(proj) :
                      LET c == flareCmeMap[resolved[k].activityID]
                      IN  /\ DOMAIN proj[k] =
                               {"activityID", "startTime", "note", "link", "earthImpactScore"}
                          /\ proj[k].activityID = c.activityID
                          /\ proj[k].startTime = c.startTime
                          /\ proj[k].note = c.note
                          /\ proj[k].link = c.link
                          /\ proj[k].earthImpactScore = c.earthImpactScore

\* C12 witness: a flare references CME-B, CME-X and CME-A in this order, the
\* map holds CME-A and CME-B only, and the flare carries two projections,
\* CME-B before CME-A.
C12_Witness ==
    /\ FlaresDone
    /\ DOMAIN flareCmeMap = {"CME-A", "CME-B"}
    /\ \E i \in 1..Len(donkiFlares) :
          /\ LinksOf(donkiFlares[i]) =
                <<[activityID |-> "CME-B"], [activityID |-> "CME-X"], [activityID |-> "CME-A"]>>
          /\ Len(ProjectionsOf(FlareOut(i))) = 2
          /\ ProjectionsOf(FlareOut(i))[1].activityID = "CME-B"
          /\ ProjectionsOf(FlareOut(i))[2].activityID = "CME-A"

\* C13: a flare or shock none of whose references resolves (linkedEvents
\* absent, empty or holding unknown ids only) is stored as fetched, with no
\* associatedCMEs (flare) and none of the four associatedCME fields (shock);
\* no event of a feed is dropped.
C13_UnresolvedIsNoError ==
    /\ FlaresDone =>
          /\ Len(processedFlares) = Len(donkiFlares)
          /\ \A i \in 1..Len(donkiFlares) :
                KeepResolved(LinksOf(donkiFlares[i]), flareCmeMap) = <<>> =>
                    /\ \E k \in 1..Len(processedFlares) : processedFlares[k] = donkiFlares[i]
                    /\ ~Has(FlareOut(i), "associatedCMEs")
    /\ IPSDone =>
          /\ Len(processedIPS) = Len(donkiIPS)
          /\ \A i \in 1..Len(donkiIPS) :
                KeepResolved(LinksOf(donkiIPS[i]), ipsCmeMap) = <<>> =>
                    /\ \E k \in 1..Len(processedIPS) : processedIPS[k] = donkiIPS[i]
                    /\ DOMAIN ShockOut(i) \cap AssociatedCMEKeys = {}

\* C13 witness: with a non-empty CME map, both passes have stored a feed of
\* two events, the first without linkedEvents and the second referring to
\* CME-X only.
C13_Witness ==
    /\ FlaresDone /\ IPSDone
    /\ flareCmeMap # <<>> /\ ipsCmeMap # <<>>
    /\ Len(processedFlares) = 2 /\ Len(processedIPS) = 2
    /\ ~Has(donkiFlares[1], "linkedEvents")
    /\ LinksOf(donkiFlares[2]) = <<[activityID |-> "CME-X"]>>
    /\ ~Has(donkiIPS[1], "linkedEvents")
    /\ LinksOf(donkiIPS[2]) = <<[activityID |-> "CME-X"]>>

\* C14: the activityID, startTime and link a stored shock carries are those
\* of the CME mapped by the first of its references that resolves.
C14_FirstResolvedShockCME ==
    IPSDone =>
        \A i \in 1..Len(donkiIPS) :
            LET resolved == KeepResolved(LinksOf(donkiIPS[i]), ipsCmeMap)
            IN  resolved # <<>> =>
                  LET c == ipsCmeMap[resolved[1].activityID]
                  IN  /\ AssociatedCMEKeys \ {"associatedCMESpeed"} \subseteq DOMAIN ShockOut(i)
                      /\ ShockOut(i).associatedCMEActivityID = c.activityID
                      /\ ShockOut(i).associatedCMEStartTime = c.startTime
                      /\ ShockOut(i).associatedCMELink = c.link

\* C14 witness: a shock references CME-X, CME-B and CME-A in this order, both
\* CME-A and CME-B are in the map, and the shock carries CME-B.
C14_Witness ==
    /\ IPSDone
    /\ DOMAIN ipsCmeMap = {"CME-A", "CME-B"}
    /\ \E i \in 1..Len(donkiIPS) :
          /\ LinksOf(donkiIPS[i]) =
                <<[activityID |-> "CME-X"], [activityID |-> "CME-B"], [activityID |-> "CME-A"]>>
          /\ ShockOut(i).associatedCMEActivityID = "CME-B"

\* C15 (as claimed): a stored shock with a resolved causative CME carries
\* that CME's displayAnalysisSpeed as associatedCMESpeed, whatever the speed.
C15_ShockSpeedIsCMESpeed ==
    IPSDone =>
        \A i \in 1..Len(donkiIPS) :
            LET resolved == KeepResolved(LinksOf(donkiIPS[i]), ipsCmeMap)
            IN  resolved # <<>> =>
                  LET c == ipsCmeMap[resolved[1].activityID]
                  IN  IF Has(c, "displayAnalysisSpeed")
                      THEN /\ Has(ShockOut(i), "associatedCMESpeed")
                           /\ ShockOut(i).associatedCMESpeed = c.displayAnalysisSpeed
                      ELSE ~Has(ShockOut(i), "associatedCMESpeed")

\* C16: when records of the enriched list share an activityID, every
\* reference to it is resolved to the last of them in the list: each flare
\* projection and each shock's causative CME show that record's startTime
\* and, for a flare, its score.
C16_LastWriteWins ==
    /\ FlaresDone =>
          \A i \in 1..Len(donkiFlares) :
              \A k \in 1..Len(ProjectionsOf(FlareOut(i))) :
                  LET p == ProjectionsOf(FlareOut(i))[k]
                  IN  /\ p.startTime = LastWithID(p.activityID).startTime
                      /\ p.earthImpactScore = LastWithID(p.activityID).earthImpactScore
    /\ IPSDone =>
          \A i \in 1..Len(donkiIPS) :
              Has(ShockOut(i), "associatedCMEActivityID") =>
                  ShockOut(i).associatedCMEStartTime =
                      LastWithID(ShockOut(i).associatedCMEActivityID).startTime

\* C16 witness: the feed holds two records named CME-A, the one scoring 1
\* first; a flare refers to CME-A and its projection shows the second
\* record, which scores Infinity.
C16_Witness ==
    /\ FlaresDone
    /\ Len(donkiCMEs) = 2
    /\ donkiCMEs[1].activityID = "CME-A" /\ donkiCMEs[2].activityID = "CME-A"
    /\ EnrichedCMEs[1].earthImpactScore = 1
    /\ EnrichedCMEs[2].earthImpactScore = Infinity
    /\ \E i \in 1..Len(donkiFlares) :
          /\ ProjectionsOf(FlareOut(i)) # <<>>
          /\ ProjectionsOf(FlareOut(i))[1].earthImpactScore = Infinity
          /\ ProjectionsOf(FlareOut(i))[1].startTime = donkiCMEs[2].startTime

\* A response with a status in 400..499.
ClientErrorAt(i) == requests[i].status \in 400..499

\* C20: a response with a status in 400..499 is the last request of the
\* call, and the call has rejected with the API error of that status,
\* whatever the earlier attempts received.
C20_ClientErrorEndsCall ==
    \A i \in 1..Len(requests) :
        ClientErrorAt(i) =>
            /\ i = Len(requests)
            /\ fetchPc = "thrown"
            /\ fetchResult # Null
            /\ fetchResult[1].message.text = "API Error"
            /\ fetchResult[1].message.status = requests[i].status

\* C20 witness: the third attempt, after a 503 and a failed connection,
\* received a 400 and the call rejected.
C20_Witness ==
    /\ Len(requests) = 3
    /\ requests[1].status = 503
    /\ requests[2] = Rejection
    /\ requests[3].status = 400
    /\ fetchPc = "thrown"

\* An attempt that succeeded: an ok response whose body parsed.
SuccessAt(i) ==
    /\ requests[i].settled = "response"
    /\ requests[i].status \in 200..299
    /\ requests[i].json

FetchSettled == fetchPc \in {"returned", "thrown"}

DescriptiveErrors == {"API Error", "Could not connect", "Failed to fetch data"}

\* What holds of one fetchData call at every moment.
RetriesBounded ==
    /\ Len(requests) <= maxRetries + 1
    /\ Len(delays) = (IF FetchSettled THEN Len(requests) - 1 ELSE Len(requests))
    /\ \A k \in 1..Len(delays) : delays[k] = 1000 * 2^(k - 1)
    /\ \A i \in 1..Len(requests) :
          SuccessAt(i) => i = Len(requests) /\ fetchPc = "returned"
    /\ fetchPc = "returned" =>
          SuccessAt(Len(requests)) /\ fetchResult = <<JsonData>>
    /\ fetchPc = "thrown" =>
          /\ fetchResult # Null
          /\ fetchResult[1].message.text \in DescriptiveErrors
          /\ ~ClientErrorAt(Len(requests)) =>
                /\ Len(requests) = maxRetries + 1
                /\ fetchResult[1].message.attempts = maxRetries + 1

\* C21: a fetchData call issues at most maxRetries + 1 requests, waits
\* initialDelayMs * 2^k before its retry number k + 1, returns the data of
\* its first successful attempt, rejects with a descriptive error (never
\* the fallback below the loop) when no attempt succeeds, and always
\* settles.
C21_RetriesBoundedAndSettle == []RetriesBounded /\ <>FetchSettled

\* C21 witness: three attempts with maxRetries = 2, a 500, a rejected fetch
\* and a 503, the waits 1000 and 2000 between them, and the call rejected.
C21_Witness ==
    /\ maxRetries = 2
    /\ Len(requests) = 3
    /\ requests[1].status = 500 /\ requests[2] = Rejection /\ requests[3].status = 503
    /\ delays = <<1000, 2000>>
    /\ fetchPc = "thrown"
    /\ fetchResult[1].message.text = "Failed to fetch data"

\* C25: an enriched CME with a finite score (1, 2, 3 or 4) is flagged
\* potentially Earth-directed; one that is not flagged scores Infinity and
\* is not Earth-directed for the ranking.
C25_FiniteScoreIsFlagged ==
    Called =>
        /\ enhanced.earthImpactScore \in 1..4 => enhanced.isPotentiallyEarthDirected = TRUE
        /\ enhanced.isPotentiallyEarthDirected = FALSE =>
              enhanced.earthImpactScore = Infinity /\ ~(enhanced.earthImpactScore <= 3)

\* C25 witness: a CME scores 3 and no analysis of it is flagged most
\* accurate or has a simulation: the flag is owed to a note alone.
C25_Witness ==
    /\ Called
    /\ enhanced.earthImpactScore = 3
    /\ enhanced.isPotentiallyEarthDirected = TRUE
    /\ \A i \in 1..Len(AnalysesOf(cme)) :
          ~cme.cmeAnalyses[i].isMostAccurate /\ SimsOf(cme.cmeAnalyses[i]) = <<>>

\* displayEnlilArrivalTime is absent, null or empty.
NoDisplayArrival(e) ==
    ~Has(e, "displayEnlilArrivalTime") \/ e.displayEnlilArrivalTime \in {Null, <<"">>}

\* C26: a score of 1 comes with a present, non-empty displayEnlilArrivalTime
\* equal to the arrival time of the first Earth-directed simulation of the
\* relevant analysis; a score of 2 comes with a null, absent or empty one.
C26_ScoreOneHasArrival ==
    Called =>
        /\ enhanced.earthImpactScore = 1 =>
              /\ ~NoDisplayArrival(enhanced)
              /\ HasPrimary
              /\ enhanced.displayEnlilArrivalTime = Primary.estimatedShockArrivalTime
        /\ enhanced.earthImpactScore = 2 => NoDisplayArrival(enhanced)

\* C26 witness: a CME scores 2; its primary Earth simulation has no arrival
\* time, a later Earth-directed simulation of the same analysis has one.
C26_Witness ==
    /\ Called
    /\ enhanced.earthImpactScore = 2
    /\ HasPrimary
    /\ Len(SimsOf(Relevant)) = 2
    /\ PrimaryIndex(Relevant) = 1
    /\ EarthFlagged(SimsOf(Relevant)[2]) /\ BearsArrival(SimsOf(Relevant)[2])
    /\ Has(enhanced, "displayEnlilArrivalTime")
    /\ enhanced.displayEnlilArrivalTime = Null

\* C22 (as claimed): at no time are two loadCMEData passes awaiting their
\* fetch; a start while a pass is pending does not happen.
C22_OnePassInFlight == Cardinality(cmeAwaiting) <= 1

\* A pass has ended in this step, and how its fetch settled.
PassEnds == cmeSettled' # cmeSettled
Settled == cmeSettled[1]

C27_NoErrorWithData == cmeError # Null => processedCMEs = <<>>

\* C28 (as claimed): once the outcome of pass N is stored, no later state
\* holds the outcome of a pass started before N.
C28_NoOlderPassShown ==
    [][ cmeSettled # Null /\ cmeSettled' # Null => Settled'.pass >= Settled.pass ]_vars

\* C29 (as claimed): cmeIsLoading is true in every state in which a
\* loadCMEData pass has started and not yet finished.
C29_LoadingTracksInFlight == cmeAwaiting # {} => cmeIsLoading = TRUE

\* The class the flux scale assigns: the name of the largest threshold that
\* is <= flux, 'A' below every threshold.
StrongestClass(flux) ==
    LET met == { i \in 1..Len(XRAY_FLUX_THRESHOLDS) : XRAY_FLUX_THRESHOLDS[i].value <= flux }
    IN  IF met = {} THEN "A"
        ELSE XRAY_FLUX_THRESHOLDS[
                 CHOOSE i \in met : \A j \in met :
                     XRAY_FLUX_THRESHOLDS[j].value <= XRAY_FLUX_THRESHOLDS[i].value ].name

\* C30 (as claimed): a tooltip that is shown classifies its data point as
\* the strongest class whose threshold is <= the point's observed_flux, and
\* as 'A' below every threshold.
C30_StrongestClassShown ==
    tooltipClass # Null =>
        tooltipClass = <<StrongestClass(tooltipPayload[1].payload.observed_flux)>>

===========================================================================
